---------------------------- MODULE Spec2Model ----------------------------
(***************************************************************************)
(* HazardService of ResQMap (src/unnamed/part_007): the three source       *)
(* adapters, the aggregator, the weather analyzer, the safety scorer and   *)
(* the heatmap synthesizer, with the upstream feeds as the environment.    *)
(*                                                                         *)
(* Units.  Latitudes and longitudes are integers in milli-degrees.         *)
(* Distances are integers in metres (the code's kilometres times 1000), so *)
(* that distances below one kilometre stay distinct.  Magnitudes are in    *)
(* tenths.  Scores are exact rationals <<num, den>>; the code's doubles    *)
(* are modelled by exact arithmetic.                                       *)
(***************************************************************************)
EXTENDS Integers, Sequences, FiniteSets, TLC

(***************************************************************************)
(* Bounds of the model.                                                    *)
(***************************************************************************)
\* events the hazard feeds deliver, in total, during one aggregation query
MaxEvents == 2
\* regions the weather-disaster adapter samples (the code lists eight)
NumRegions == 2
\* readings of the wall clock (Date.now()) are 0..MaxClock
MaxClock == 1
\* changes of location the page goes through
MaxSelections == 2

(***************************************************************************)
(* Rational arithmetic on <<num, den>> with den > 0, kept in lowest terms. *)
(***************************************************************************)
RECURSIVE GCD(_, _)
GCD(a, b) == IF b = 0 THEN a ELSE GCD(b, a % b)

Abs(x) == IF x < 0 THEN -x ELSE x

Rat(n, d) == LET g == GCD(Abs(n), d) IN <<n \div g, d \div g>>

RatInt(n) == <<n, 1>>

RatSub(x, y) ==
    LET g == GCD(x[2], y[2])
        l == (x[2] \div g) * y[2]
    IN  Rat(x[1] * (l \div x[2]) - y[1] * (l \div y[2]), l)

RatAdd(x, y) == RatSub(x, <<-y[1], y[2]>>)

\* x * (n / d) for small n, d
RatScale(x, n, d) ==
    LET g == GCD(Abs(x[1]), d)
        h == GCD(n, x[2])
    IN  Rat((x[1] \div g) * (n \div h), (x[2] \div h) * (d \div g))

RatLeq(x, y) == RatSub(x, y)[1] <= 0

RatLess(x, y) == RatSub(x, y)[1] < 0

RatMin(x, y) == IF RatLeq(x, y) THEN x ELSE y

RatMax(x, y) == IF RatLeq(x, y) THEN y ELSE x

\* Math.round: the nearest integer, a tie going up
MathRound(x) == (2 * x[1] + x[2]) \div (2 * x[2])

\* Math.max(0, Math.min(100, score))
Clamp100(score) == RatMax(RatInt(0), RatMin(RatInt(100), score))

(***************************************************************************)
(* calculateDistance.  The haversine formula needs sin, cos and atan2; the *)
(* model keeps the two points within a few degrees of each other, where    *)
(* the great-circle distance is                                            *)
(*     R * sqrt(dLat^2 + cos(lat1) * cos(lat2) * dLng^2)                   *)
(* with the angles in radians (exactly so along a meridian, where every    *)
(* hazard of the model lies).  R * pi / 180 = 111.19 km per degree.        *)
(* Integers are 32 bits wide in the checker: every product stays below     *)
(* 2^31.                                                                   *)
(***************************************************************************)
RECURSIVE ISqrtIn(_, _, _)
\* the largest r in lo..hi with r * r <= n, by bisection
ISqrtIn(n, lo, hi) ==
    IF lo = hi THEN lo
    ELSE LET mid == (lo + hi + 1) \div 2
         IN  IF mid * mid <= n THEN ISqrtIn(n, mid, hi) ELSE ISqrtIn(n, lo, mid - 1)

ISqrt(n) == ISqrtIn(n, 0, 46340)

\* Math.cos(lat * Math.PI / 180) in thousandths, lat in milli-degrees, by the
\* series 1 - x^2/2 + x^4/24 - x^6/720 + x^8/40320 in millionths
CosPermille(lat) ==
    LET x  == (Abs(lat) * 17453) \div 100000
        x2 == (x * x) \div 100
        t2 == ((x2 \div 100) * (x2 \div 100)) \div 2400
        t3 == (t2 * (x2 \div 1000)) \div 30000
        t4 == (t3 * (x2 \div 1000)) \div 56000
    IN  (1000000 - x2 \div 2 + t2 - t3 + t4 + 500) \div 1000

\* as calculateDistance, but measured northwards and eastwards only
calculateDistanceDirected(lat1, lng1, lat2, lng2) ==
    LET dLat == lat2 - lat1
        dLng == lng2 - lng1
        c    == IF dLng = 0 THEN dLat
                ELSE IF dLat = 0 THEN dLng
                ELSE IF dLat < 0 \/ dLng < 0 THEN 0 - ISqrt(dLat * dLat + dLng * dLng)
                ELSE ISqrt(dLat * dLat + dLng * dLng)
    IN  (11119 * c) \div 100

calculateDistance(lat1, lng1, lat2, lng2) ==
    LET dLat == Abs(lat2 - lat1)
        dLng == Abs(lng2 - lng1)
        \* cos(lat1) * cos(lat2) * dLng^2
        east == ((dLng * CosPermille(lat1)) \div 1000)
                  * ((dLng * CosPermille(lat2)) \div 1000)
        c    == IF dLng = 0 THEN dLat ELSE ISqrt(dLat * dLat + east)
    IN  (11119 * c) \div 100

(***************************************************************************)
(* analyzeWeatherData: five rules, each an if / else-if pair that assigns  *)
(* severity and pushes one warning.  conditions.visibility is in metres    *)
(* here (the code divides the feed's metres by 1000 and compares with 1    *)
(* and 2 kilometres).                                                      *)
(***************************************************************************)
\* as Rule, the second test not under an else
RuleNoElse(acc, high, medium, highWarning, mediumWarning) ==
    LET first == IF high
                 THEN [warnings |-> Append(acc.warnings, highWarning),
                       severity |-> "high"]
                 ELSE acc
    IN  IF medium
        THEN [warnings |-> Append(first.warnings, mediumWarning),
              severity |-> "medium"]
        ELSE first

Rule(acc, high, medium, highWarning, mediumWarning) ==
    IF high
    THEN [warnings |-> Append(acc.warnings, highWarning), severity |-> "high"]
    ELSE IF medium
    THEN [warnings |-> Append(acc.warnings, mediumWarning), severity |-> "medium"]
    ELSE acc

\* as analyzeWeatherData, the cold advisory reaching up to the heat advisory
analyzeWeatherDataOverlap(conditions) ==
    LET s0 == [warnings |-> <<>>, severity |-> "low"]
        s1 == Rule(s0, conditions.temperature >= 45, conditions.temperature >= 40,
                   "Extreme Heat Warning - Heat Wave Conditions",
                   "Heat Advisory - High Temperature Alert")
        s2 == Rule(s1, conditions.temperature <= 5, conditions.temperature <= 40,
                   "Extreme Cold Warning - Cold Wave Conditions",
                   "Cold Weather Advisory")
        s3 == Rule(s2, conditions.windSpeed >= 20, conditions.windSpeed >= 15,
                   "High Wind Warning", "Wind Advisory")
        s4 == Rule(s3, conditions.rainfall >= 50, conditions.rainfall >= 20,
                   "Heavy Rainfall Warning - Flood Risk", "Rainfall Advisory")
        s5 == Rule(s4, conditions.visibility < 1000, conditions.visibility < 2000,
                   "Low Visibility Warning", "Reduced Visibility Advisory")
    IN  s5

analyzeWeatherData(conditions) ==
    LET s0 == [warnings |-> <<>>, severity |-> "low"]
        s1 == Rule(s0, conditions.temperature >= 45, conditions.temperature >= 40,
                   "Extreme Heat Warning - Heat Wave Conditions",
                   "Heat Advisory - High Temperature Alert")
        s2 == Rule(s1, conditions.temperature <= 5, conditions.temperature <= 10,
                   "Extreme Cold Warning - Cold Wave Conditions",
                   "Cold Weather Advisory")
        s3 == Rule(s2, conditions.windSpeed >= 20, conditions.windSpeed >= 15,
                   "High Wind Warning", "Wind Advisory")
        s4 == Rule(s3, conditions.rainfall >= 50, conditions.rainfall >= 20,
                   "Heavy Rainfall Warning - Flood Risk", "Rainfall Advisory")
        s5 == Rule(s4, conditions.visibility < 1000, conditions.visibility < 2000,
                   "Low Visibility Warning", "Reduced Visibility Advisory")
    IN  s5


(***************************************************************************)
(* What the upstream feeds can answer.  A response is a record             *)
(* [status, items]: "ok" carries the payload, "fail" is a network failure  *)
(* (axios rejects), "malformed" is an answer whose payload lacks the       *)
(* fields the adapter reads (the access throws a TypeError).               *)
(***************************************************************************)
Ok(items) == [status |-> "ok", items |-> items]

Fail == [status |-> "fail", items |-> <<>>]

Malformed == [status |-> "malformed", items |-> <<>>]

\* USGS features: id, properties.mag (tenths), geometry latitude, properties.time
EqCatalogue ==
    { [id |-> 1, mag |-> 42, lat |-> 300,  time |-> 0],
      [id |-> 2, mag |-> 65, lat |-> 5,    time |-> 0],
      [id |-> 3, mag |-> 55, lat |-> 2000, time |-> 0],
      [id |-> 4, mag |-> 50, lat |-> 0,    time |-> 0] }

\* OpenWeather "find" cities: id, weather[0].main, coord.lat
CityCatalogue ==
    { [id |-> 1, main |-> "Rain",    lat |-> 300],
      [id |-> 2, main |-> "Clear",   lat |-> 300] }

\* EONET events: id, the latitudes of event.geometry (possibly none), its date
LsCatalogue ==
    { [id |-> 1, geometry |-> <<300>>, date |-> 0],
      [id |-> 2, geometry |-> <<5>>,   date |-> 0],
      [id |-> 3, geometry |-> <<0>>,   date |-> 0] }

\* sequences of distinct elements of S, of length at most n, in the order of
\* the ids (a feed lists its items in one fixed order)
SeqsUpTo(S, n) ==
    { q \in UNION { [1..k -> S] : k \in 0..n } :
        \A i, j \in DOMAIN q : i < j => q[i].id < q[j].id }

\* current weather: main.temp, wind.speed, rain.1h, visibility (metres)
Snapshots ==
    { [temperature |-> 20, windSpeed |-> 5,  rainfall |-> 0,  visibility |-> 10000],
      [temperature |-> 46, windSpeed |-> 16, rainfall |-> 0,  visibility |-> 10000],
      [temperature |-> 42, windSpeed |-> 25, rainfall |-> 25, visibility |-> 1500],
      [temperature |-> 3,  windSpeed |-> 25, rainfall |-> 60, visibility |-> 500] }

CurrentResponses == { Ok(<<s>>) : s \in Snapshots } \cup {Fail, Malformed}

\* forecast.list: one entry is enough, the service only copies it
ForecastResponses ==
    { Ok(<<[temperature |-> 21, windSpeed |-> 4]>>), Fail, Malformed }

(***************************************************************************)
(* The result of an async function: a promise fulfilled with a value or    *)
(* rejected.                                                               *)
(***************************************************************************)
Fulfilled(v) == [st |-> "fulfilled", val |-> v]

Rejected == [st |-> "rejected", val |-> <<>>]

(***************************************************************************)
(* fetchEarthquakes                                                        *)
(***************************************************************************)
EqHazard(eq, t) ==
    [ id        |-> <<"eq", eq.id, 0>>,
      type      |-> "earthquake",
      severity  |-> IF eq.mag >= 60 THEN "high"
                    ELSE IF eq.mag >= 50 THEN "medium" ELSE "low",
      lat       |-> eq.lat,
      lng       |-> 0,
      timestamp |-> eq.time,
      magnitude |-> eq.mag ]

\* as fetchEarthquakes, the catch block rethrowing
fetchEarthquakesRethrow(response) ==
    IF response.status = "ok"
    THEN Fulfilled([i \in DOMAIN response.items |-> EqHazard(response.items[i], 0)])
    ELSE Rejected

\* as fetchEarthquakes, the catch block answering with a sample event
fetchEarthquakesSample(response) ==
    IF response.status = "ok"
    THEN Fulfilled([i \in DOMAIN response.items |-> EqHazard(response.items[i], 0)])
    ELSE Fulfilled(<<EqHazard([id |-> 2, mag |-> 65, lat |-> 5, time |-> 0], 0)>>)

\* try { ... map ... } catch { return [] }
fetchEarthquakes(response) ==
    IF response.status = "ok"
    THEN Fulfilled([i \in DOMAIN response.items |-> EqHazard(response.items[i], 0)])
    ELSE Fulfilled(<<>>)

(***************************************************************************)
(* fetchWeatherDisasters: one region of the loop.  String.includes on the  *)
(* lower-cased condition is a table over the conditions of the catalogue.  *)
(***************************************************************************)
Includes(main, keyword) ==
    CASE main = "Rain"    -> keyword = "rain"
      [] main = "Tornado" -> keyword = "tornado"
      [] OTHER            -> FALSE

IsSevereCity(city) ==
    \E k \in {"extreme", "storm", "rain", "snow", "thunder", "tornado",
              "drizzle", "mist", "fog"} : Includes(city.main, k)

\* as WeatherHazard, the time of the call also kept among the details
WeatherHazardTimed(city, t) ==
    [ id        |-> <<"weather", city.id, t>>,
      type      |-> "weather",
      severity  |-> "low",
      lat       |-> city.lat,
      lng       |-> 0,
      timestamp |-> t,
      magnitude |-> t ]

\* the hazard the map callback builds of a severe city, at time t
WeatherHazard(city, t) ==
    [ id        |-> <<"weather", city.id, t>>,
      type      |-> "weather",
      severity  |-> IF \E k \in {"extreme", "tornado", "hurricane"} :
                          Includes(city.main, k)
                    THEN "high"
                    ELSE IF \E k \in {"storm", "thunder", "heavy"} :
                               Includes(city.main, k)
                    THEN "medium" ELSE "low",
      lat       |-> city.lat,
      lng       |-> 0,
      timestamp |-> t,
      magnitude |-> 0 ]

\* as fetchRegion, a failed region caught by the outer catch block alone
fetchRegionAbort(allHazards, response, t) ==
    IF response.status = "ok"
    THEN LET severe == SelectSeq(response.items, IsSevereCity)
         IN  allHazards \o [i \in DOMAIN severe |-> WeatherHazard(severe[i], t)]
    ELSE <<>>

\* the body of the for loop: the inner try / catch skips a failed region
fetchRegion(allHazards, response, t) ==
    IF response.status = "ok"
    THEN LET severe == SelectSeq(response.items, IsSevereCity)
         IN  allHazards \o [i \in DOMAIN severe |-> WeatherHazard(severe[i], t)]
    ELSE allHazards

(***************************************************************************)
(* fetchLandslides                                                         *)
(***************************************************************************)
HasGeometry(event) == Len(event.geometry) > 0

LsHazard(event, t) ==
    [ id        |-> <<"landslide", event.id, 0>>,
      type      |-> "landslide",
      severity  |-> "medium",
      lat       |-> event.geometry[1],
      lng       |-> 0,
      timestamp |-> event.date,
      magnitude |-> 0 ]

fetchLandslides(response) ==
    IF response.status = "ok"
    THEN LET located == SelectSeq(response.items, HasGeometry)
         IN  Fulfilled([i \in DOMAIN located |-> LsHazard(located[i], 0)])
    ELSE Fulfilled(<<>>)

(***************************************************************************)
(* filterHazardsByDistance: map (attach the distance), filter, stable sort *)
(***************************************************************************)
WithDistance(hazard, d) ==
    [ id        |-> hazard.id,
      type      |-> hazard.type,
      severity  |-> hazard.severity,
      lat       |-> hazard.lat,
      lng       |-> hazard.lng,
      timestamp |-> hazard.timestamp,
      magnitude |-> hazard.magnitude,
      distance  |-> d ]

\* as MapCallback, the distance assigned to the hazard it was given
MapCallbackAssign(hazard, d) ==
    [ given |-> WithDistance(hazard, d), result |-> WithDistance(hazard, d) ]

\* the callback of map: { ...hazard, distance } is a new object; given is the
\* hazard it was called with, as the call leaves it
MapCallback(hazard, d) ==
    [ given |-> hazard, result |-> WithDistance(hazard, d) ]

\* the array filterHazardsByDistance was called with, as the call leaves it:
\* map, filter and sort work on arrays of their own
InputAfterFilter(hazards, lat, lng, radiusKm) ==
    [ i \in DOMAIN hazards |->
        MapCallback(hazards[i],
                    calculateDistance(lat, lng, hazards[i].lat, hazards[i].lng)).given ]

RECURSIVE InsertByDistance(_, _)
\* h goes after every element that is not farther away (Array.sort is stable)
InsertByDistance(sorted, h) ==
    IF sorted = <<>> THEN <<h>>
    ELSE IF Head(sorted).distance - h.distance <= 0
         THEN <<Head(sorted)>> \o InsertByDistance(Tail(sorted), h)
         ELSE <<h>> \o sorted

\* as SortByDistance, the list left in the order of the merge
SortNone(hazards) == hazards

RECURSIVE SortByDistance(_)
SortByDistance(hazards) ==
    IF hazards = <<>> THEN <<>>
    ELSE InsertByDistance(SortByDistance(SubSeq(hazards, 1, Len(hazards) - 1)),
                          hazards[Len(hazards)])

RECURSIVE MapDistanceOnly(_, _, _, _)
\* as MapFilterDistance, every hazard kept
MapDistanceOnly(hazards, lat, lng, radiusKm) ==
    IF hazards = <<>> THEN <<>>
    ELSE <<WithDistance(Head(hazards),
                        calculateDistance(lat, lng, Head(hazards).lat,
                                          Head(hazards).lng))>>
         \o MapDistanceOnly(Tail(hazards), lat, lng, radiusKm)

RECURSIVE MapFilterDistance(_, _, _, _)
MapFilterDistance(hazards, lat, lng, radiusKm) ==
    IF hazards = <<>> THEN <<>>
    ELSE LET distance == calculateDistance(lat, lng, Head(hazards).lat, Head(hazards).lng)
             rest     == MapFilterDistance(Tail(hazards), lat, lng, radiusKm)
         IN  IF distance <= radiusKm * 1000
             THEN <<MapCallback(Head(hazards), distance).result>> \o rest
             ELSE rest

filterHazardsByDistance(hazards, lat, lng, radiusKm) ==
    SortByDistance(MapFilterDistance(hazards, lat, lng, radiusKm))

(***************************************************************************)
(* What a public operation hands to its caller.                            *)
(***************************************************************************)
Returned(v) == [kind |-> "returned", value |-> v]

Threw == [kind |-> "threw", value |-> <<>>]

NoOutcome == [kind |-> "none", value |-> <<>>]

(***************************************************************************)
(* getWeatherData: the body of the try block once both responses are in,   *)
(* and the catch block.                                                    *)
(***************************************************************************)
\* as WeatherFallback, without its warning
WeatherFallbackNoWarning ==
    [ current   |-> [temperature |-> 0, windSpeed |-> 0, rainfall |-> 0,
                     visibility |-> 0],
      forecasts |-> <<>>,
      warnings  |-> <<>>,
      severity  |-> "low" ]

\* the value of the catch block
WeatherFallback ==
    [ current   |-> [temperature |-> 0, windSpeed |-> 0, rainfall |-> 0,
                     visibility |-> 0],
      forecasts |-> <<>>,
      warnings  |-> <<"Weather data unavailable">>,
      severity  |-> "low" ]

ParseWeather(currentResponse, forecastResponse) ==
    LET currentWeather == currentResponse.items[1]
        analysis       == analyzeWeatherData(currentWeather)
    IN  [ current   |-> currentWeather,
          forecasts |-> forecastResponse.items,
          warnings  |-> analysis.warnings,
          severity  |-> analysis.severity ]

\* as getWeatherData, without its catch block
getWeatherDataNoCatch(currentResponse, forecastResponse) ==
    IF currentResponse.status = "ok" /\ forecastResponse.status = "ok"
    THEN Returned(ParseWeather(currentResponse, forecastResponse))
    ELSE Threw

getWeatherData(currentResponse, forecastResponse) ==
    IF currentResponse.status = "ok" /\ forecastResponse.status = "ok"
    THEN Returned(ParseWeather(currentResponse, forecastResponse))
    ELSE Returned(WeatherFallback)

(***************************************************************************)
(* calculateSafetyScore: the scoring that follows the two awaits.          *)
(* An explanation is a record: its text, and the magnitude (tenths) and    *)
(* the kilometres (distance.toFixed(0)) the text embeds, 0 when it embeds  *)
(* none.                                                                   *)
(***************************************************************************)
Expl(text, m, km) == [text |-> text, m |-> m, km |-> km]

ToFixed0(distance) == (distance + 500) \div 1000

\* impact per kilometre unit: numerator / Math.max(distance, 1)
Impact(numerator, distance) ==
    Rat(numerator * 1000, IF distance >= 1000 THEN distance ELSE 1000)

\* as SelectType, every hazard that is not an earthquake taken for a landslide
SelectTypeLoose(hazards, type) ==
    LET keep(h) == IF type = "landslide" THEN h.type # "earthquake"
                   ELSE h.type = type
    IN  SelectSeq(hazards, keep)

SelectType(hazards, type) ==
    LET keep(h) == h.type = type
    IN  SelectSeq(hazards, keep)

RECURSIVE EarthquakeRisk(_, _)
\* nearbyEarthquakes.forEach, acc = [score, explanation]
EarthquakeRisk(quakes, acc) ==
    IF quakes = <<>> THEN acc
    ELSE LET eq     == Head(quakes)
             impact == Impact(eq.magnitude, eq.distance)
             next   ==
               IF eq.distance # 0 /\ eq.magnitude # 0
               THEN [ score |-> RatSub(acc.score, impact),
                      explanation |->
                        IF RatLess(RatInt(10), impact)
                        THEN Append(acc.explanation,
                               Expl("Major earthquake", eq.magnitude,
                                    ToFixed0(eq.distance)))
                        ELSE IF RatLess(RatInt(5), impact)
                        THEN Append(acc.explanation,
                               Expl("Moderate earthquake activity", 0,
                                    ToFixed0(eq.distance)))
                        ELSE acc.explanation ]
               ELSE acc
         IN  EarthquakeRisk(Tail(quakes), next)

RECURSIVE LandslideRisk(_, _)
LandslideRisk(slides, acc) ==
    IF slides = <<>> THEN acc
    ELSE LET ls     == Head(slides)
             impact == Impact(100, ls.distance)
             next   ==
               IF ls.distance # 0
               THEN [ score |-> RatSub(acc.score, impact),
                      explanation |->
                        IF RatLess(RatInt(10), impact)
                        THEN Append(acc.explanation,
                               Expl("Landslide risk", 0, ToFixed0(ls.distance)))
                        ELSE acc.explanation ]
               ELSE acc
         IN  LandslideRisk(Tail(slides), next)

RECURSIVE PushWarningsReversed(_, _)
\* as PushWarnings, the last warning first
PushWarningsReversed(explanation, warnings) ==
    IF warnings = <<>> THEN explanation
    ELSE Append(PushWarningsReversed(explanation, Tail(warnings)),
                Expl(Head(warnings), 0, 0))

RECURSIVE PushWarnings(_, _)
PushWarnings(explanation, warnings) ==
    IF warnings = <<>> THEN explanation
    ELSE PushWarnings(Append(explanation, Expl(Head(warnings), 0, 0)),
                      Tail(warnings))

\* as RawScores, the notice of the weather fallback not counted as a warning
RawScoresNoticeSkipped(hazards, weatherData) ==
    LET nearbyEarthquakes == SelectType(hazards, "earthquake")
        e == IF Len(nearbyEarthquakes) > 0
             THEN EarthquakeRisk(nearbyEarthquakes,
                                 [score |-> RatInt(100), explanation |-> <<>>])
             ELSE [score |-> RatInt(100),
                   explanation |->
                     <<Expl("No recent earthquake activity detected", 0, 0)>>]
        counted(warning) == warning # "Weather data unavailable"
        warnings == SelectSeq(weatherData.warnings, counted)
        w == IF Len(warnings) > 0
             THEN [score |-> RatInt(100 - Len(warnings) * 15),
                   explanation |-> PushWarnings(e.explanation, weatherData.warnings)]
             ELSE [score |-> RatInt(100),
                   explanation |->
                     PushWarnings(e.explanation, weatherData.warnings)]
        nearbyLandslides == SelectType(hazards, "landslide")
        l == IF Len(nearbyLandslides) > 0
             THEN LandslideRisk(nearbyLandslides,
                                [score |-> RatInt(100), explanation |-> w.explanation])
             ELSE [score |-> RatInt(100),
                   explanation |->
                     Append(w.explanation, Expl("No landslide activity detected", 0, 0))]
    IN  [earthquake |-> e.score, weather |-> w.score, landslide |-> l.score,
         explanation |-> l.explanation]

\* the three sub-scores before clamping, and the explanations
RawScores(hazards, weatherData) ==
    LET nearbyEarthquakes == SelectType(hazards, "earthquake")
        e == IF Len(nearbyEarthquakes) > 0
             THEN EarthquakeRisk(nearbyEarthquakes,
                                 [score |-> RatInt(100), explanation |-> <<>>])
             ELSE [score |-> RatInt(100),
                   explanation |->
                     <<Expl("No recent earthquake activity detected", 0, 0)>>]
        w == IF Len(weatherData.warnings) > 0
             THEN [score |-> RatInt(100 - Len(weatherData.warnings) * 15),
                   explanation |-> PushWarnings(e.explanation, weatherData.warnings)]
             ELSE [score |-> RatInt(100),
                   explanation |->
                     Append(e.explanation, Expl("No severe weather warnings", 0, 0))]
        nearbyLandslides == SelectType(hazards, "landslide")
        l == IF Len(nearbyLandslides) > 0
             THEN LandslideRisk(nearbyLandslides,
                                [score |-> RatInt(100), explanation |-> w.explanation])
             ELSE [score |-> RatInt(100),
                   explanation |->
                     Append(w.explanation, Expl("No landslide activity detected", 0, 0))]
    IN  [earthquake |-> e.score, weather |-> w.score, landslide |-> l.score,
         explanation |-> l.explanation]

\* as EnsureRange, the clamp left out
NoClamp(score) == score

\* "Ensure scores are within 0-100 range"
EnsureRange(score) == Clamp100(score)

\* earthquakeScore * 0.4 + weatherScore * 0.4 + landslideScore * 0.2
Weighted(earthquakeScore, weatherScore, landslideScore) ==
    RatAdd(RatAdd(RatScale(earthquakeScore, 2, 5), RatScale(weatherScore, 2, 5)),
           RatScale(landslideScore, 1, 5))

\* as Overall, but of the sub-scores as they are returned
OverallOfRounded(earthquakeScore, weatherScore, landslideScore) ==
    MathRound(Weighted(RatInt(MathRound(earthquakeScore)),
                       RatInt(MathRound(weatherScore)),
                       RatInt(MathRound(landslideScore))))

Overall(earthquakeScore, weatherScore, landslideScore) ==
    MathRound(Weighted(earthquakeScore, weatherScore, landslideScore))

\* the clamped sub-scores, still unrounded
ClampedScores(hazards, weatherData) ==
    LET raw == RawScores(hazards, weatherData)
    IN  [earthquake |-> EnsureRange(raw.earthquake),
         weather    |-> EnsureRange(raw.weather),
         landslide  |-> EnsureRange(raw.landslide)]

ComputeScore(hazards, weatherData) ==
    LET c == ClampedScores(hazards, weatherData)
    IN  [ overall     |-> Overall(c.earthquake, c.weather, c.landslide),
          earthquake  |-> MathRound(c.earthquake),
          weather     |-> MathRound(c.weather),
          landslide   |-> MathRound(c.landslide),
          explanation |-> RawScores(hazards, weatherData).explanation ]

\* the value of the catch block
DefaultScore ==
    [ overall |-> 50, earthquake |-> 50, weather |-> 50, landslide |-> 50,
      explanation |-> <<Expl("Error calculating safety score", 0, 0)>> ]

(***************************************************************************)
(* getHeatmapData.  Math.random() * 30 - 15 lies in [-15, 15); the model  *)
(* draws it from NoiseValues, one draw per grid point.                     *)
(***************************************************************************)
NoiseValues == {-15, 0, 14}

\* the draws of a call with n points: the same value at every point, or the
\* three values in turn from any of them on
NoisePatterns(n) ==
    { [i \in 1..n |-> v] : v \in NoiseValues }
    \cup { [i \in 1..n |-> CASE (i + k) % 3 = 0 -> -15
                              [] (i + k) % 3 = 1 -> 0
                              [] OTHER -> 14] : k \in 0..2 }

\* radiusKm = 500 when the caller gives none
DefaultRadius == 500

HeatmapRadii == {0, 60, 150, 600}

\* the centres the heatmap is asked for: on the equator, and at 60 degrees
\* north, where cos(centerLat) = 1/2
HeatmapCenters == { [lat |-> 0, lng |-> 0], [lat |-> 60000, lng |-> 0] }

\* 0 / 0; Infinity does not occur, a point farther than radius 0 is skipped
NaN == <<0, 0>>

IsNaN(x) == x[2] = 0

\* centre - range, centre - range + step, ... up to centre + range
RECURSIVE GridLine(_, _, _)
GridLine(from, to, step) ==
    IF from > to THEN <<>> ELSE <<from>> \o GridLine(from + step, to, step)

RECURSIVE Cross(_, _)
\* the nested for loops: every lat with every lng, lat outermost
Cross(lats, lngs) ==
    IF lats = <<>> THEN <<>>
    ELSE [i \in 1..Len(lngs) |-> [lat |-> Head(lats), lng |-> lngs[i]]]
         \o Cross(Tail(lats), lngs)

\* as GridCells, the step between columns divided by cos(centerLat)
GridCellsCorrectedStep(centerLat, centerLng, radiusKm) ==
    LET step     == 500
        lngStep  == (500 * 1000) \div CosPermille(centerLat)
        latRange == (radiusKm * 1000) \div 111
        lngRange == (radiusKm * 1000 * 1000) \div (111 * CosPermille(centerLat))
    IN  Cross(GridLine(centerLat - latRange, centerLat + latRange, step),
              GridLine(centerLng - lngRange, centerLng + lngRange, lngStep))

\* the cells the two loops enumerate
GridCells(centerLat, centerLng, radiusKm) ==
    LET step     == 500
        latRange == (radiusKm * 1000) \div 111
        lngRange == (radiusKm * 1000 * 1000) \div (111 * CosPermille(centerLat))
    IN  Cross(GridLine(centerLat - latRange, centerLat + latRange, step),
              GridLine(centerLng - lngRange, centerLng + lngRange, step))

\* as GridPoints, no cell skipped
GridPointsUnfiltered(centerLat, centerLng, radiusKm) ==
    GridCells(centerLat, centerLng, radiusKm)

\* the cells pushed to points: "Skip points outside the radius"
GridPoints(centerLat, centerLng, radiusKm) ==
    LET inside(p) == calculateDistance(centerLat, centerLng, p.lat, p.lng)
                       <= radiusKm * 1000
    IN  SelectSeq(GridCells(centerLat, centerLng, radiusKm), inside)

\* riskScore of one point, noise being its draw of Math.random
RiskScore(centerLat, centerLng, radiusKm, point, noise) ==
    LET distance == calculateDistance(centerLat, centerLng, point.lat, point.lng)
        ratio    == IF radiusKm = 0 THEN NaN ELSE Rat(distance, radiusKm * 1000)
        base     == IF IsNaN(ratio) THEN NaN
                    ELSE RatSub(RatInt(100), RatScale(ratio, 100, 1))
        noisy    == IF IsNaN(base) THEN NaN ELSE RatAdd(base, RatInt(noise))
    IN  \* Math.min(100, Math.max(0, NaN)) is NaN
        IF IsNaN(noisy) THEN NaN
        ELSE RatMin(RatInt(100), RatMax(RatInt(0), noisy))

getHeatmapData(centerLat, centerLng, radiusKm, noise) ==
    LET points == GridPoints(centerLat, centerLng, radiusKm)
    IN  Returned([i \in 1..Len(points) |->
                    [lat |-> points[i].lat, lng |-> points[i].lng,
                     intensity |-> RiskScore(centerLat, centerLng, radiusKm,
                                             points[i], noise[i])]])

(***************************************************************************)
(* The state.                                                              *)
(***************************************************************************)
VARIABLES
    op,              \* the public operation in progress and its arguments
    pc,              \* where it stands: idle, awaitAll, awaitCurrent, awaitForecast, done
    eq,              \* the promise of fetchEarthquakes
    wx,              \* the promise of fetchWeatherDisasters
    ls,              \* the promise of fetchLandslides
    region,          \* the region fetchWeatherDisasters is waiting for
    allHazards,      \* fetchWeatherDisasters' accumulator
    weatherReq,      \* the request getWeatherData is waiting for
    currentResponse, \* getWeatherData's currentResponse, while it awaits the forecast
    hazards,         \* calculateSafetyScore's hazards, once the aggregator returned
    outcome,         \* what the operation handed to its caller
    now,             \* Date.now() as last read, counted from the caller's last return
    log,             \* the upstream responses received by the operation in progress
    last,            \* the previous operation, when it was a completed hazard query
    mock,            \* the recorded responses the feeds replay, if any
    raised,          \* a runtime exception was raised inside calculateSafetyScore
    scores,          \* calculateSafetyScore's three scores once clamped, unrounded
    page,            \* the state of the HazardReports page (its useState hooks)
    fetches,         \* the page's calls of the service that have not resumed yet
    selected         \* how many times the page's location has changed

\* the state of a call of the service
serviceVars == <<op, pc, eq, wx, ls, region, allHazards, weatherReq, currentResponse,
                 hazards, outcome, now, log, last, mock, raised, scores>>

\* the state of the page
pageVars == <<page, fetches, selected>>

vars == <<op, pc, eq, wx, ls, region, allHazards, weatherReq, currentResponse,
          hazards, outcome, now, log, last, mock, raised, scores, page, fetches,
          selected>>

\* the page as it is mounted: useState([]), useState(null), useState(false)
PageMounted ==
    [ activeLocation |-> "none",
      hazards        |-> "none",
      weatherData    |-> "none",
      safetyScore    |-> "none",
      heatmapData    |-> "none",
      loading        |-> FALSE,
      weatherLoading |-> FALSE,
      safetyLoading  |-> FALSE,
      heatmapLoading |-> FALSE,
      error          |-> "none" ]

PageInit ==
    /\ page = PageMounted
    /\ fetches = {}
    /\ selected = 0

Idle == [st |-> "idle", val |-> <<>>]

Pending == [st |-> "pending", val |-> <<>>]

Stalled == [st |-> "stalled", val |-> <<>>]

NoOp == [name |-> "none", lat |-> 0, lng |-> 0, radiusKm |-> 0]

EmptyLog == [eq |-> <<>>, wx |-> <<>>, ls |-> <<>>, current |-> <<>>, forecast |-> <<>>]

NoLast == [op |-> NoOp, log |-> EmptyLog, result |-> <<>>]

NoScores == [earthquake |-> <<0, 1>>, weather |-> <<0, 1>>, landslide |-> <<0, 1>>]

\* the reference location of every query of the model
Reference == [lat |-> 0, lng |-> 0]

\* the radius the page queries with, also the default
Radii == {100}

Init ==
    /\ op = NoOp
    /\ pc = "idle"
    /\ eq = Idle
    /\ wx = Idle
    /\ ls = Idle
    /\ region = 0
    /\ allHazards = <<>>
    /\ weatherReq = "idle"
    /\ currentResponse = Fail
    /\ hazards = <<>>
    /\ outcome = NoOutcome
    /\ now = 0
    /\ log = EmptyLog
    /\ last = NoLast
    /\ mock = EmptyLog
    /\ raised = FALSE
    /\ scores = NoScores
    /\ PageInit

(***************************************************************************)
(* The upstream: what a feed may answer to the request in flight.  With a  *)
(* mock in place the feed replays the recorded response, and the answers   *)
(* arrive in the order the requests were made: the promises of a mock are  *)
(* already resolved when they are awaited.                                 *)
(***************************************************************************)
Mocked == mock # EmptyLog

RECURSIVE CountItems(_)
CountItems(responses) ==
    IF responses = <<>> THEN 0
    ELSE Len(Head(responses).items) + CountItems(Tail(responses))

\* events delivered so far in this query
Delivered == CountItems(log.eq) + CountItems(log.wx) + CountItems(log.ls)

FeedResponses(catalogue) ==
    { Ok(q) : q \in SeqsUpTo(catalogue, MaxEvents - Delivered) } \cup {Fail, Malformed}

EqResponses == IF Mocked THEN {mock.eq[1]} ELSE FeedResponses(EqCatalogue)

WxResponses == IF Mocked THEN {mock.wx[region]} ELSE FeedResponses(CityCatalogue)

LsResponses == IF Mocked THEN {mock.ls[1]} ELSE FeedResponses(LsCatalogue)

(***************************************************************************)
(* Promise.all and the body of getHazardsNearLocation.                     *)
(***************************************************************************)
\* as PromiseAllSettled, but settling with the first promise (Promise.race)
AnySettled(promises) ==
    \E i \in DOMAIN promises : promises[i].st \in {"fulfilled", "rejected"}

\* Promise.all settles when every promise is fulfilled, or when one rejects
PromiseAllSettled(promises) ==
    \/ \A i \in DOMAIN promises : promises[i].st = "fulfilled"
    \/ \E i \in DOMAIN promises : promises[i].st = "rejected"

\* as getHazardsNearLocation, the lists merged landslides first
getHazardsNearLocationReversed(earthquakes, weather, landslides, lat, lng, radiusKm) ==
    IF \E p \in {earthquakes, weather, landslides} : p.st = "rejected"
    THEN Returned(<<>>)
    ELSE Returned(filterHazardsByDistance(
                    landslides.val \o weather.val \o earthquakes.val,
                    lat, lng, radiusKm))

\* try { await Promise.all; merge; filter } catch { return [] }
getHazardsNearLocation(earthquakes, weather, landslides, lat, lng, radiusKm) ==
    IF \E p \in {earthquakes, weather, landslides} : p.st = "rejected"
    THEN Returned(<<>>)
    ELSE Returned(filterHazardsByDistance(
                    earthquakes.val \o weather.val \o landslides.val,
                    lat, lng, radiusKm))

\* as ScoreCatch, but scoring what the try block had
ScoreCatchPartial(partial) == ComputeScore(partial, WeatherFallback)

\* the catch block of calculateSafetyScore; partial is what the try block had
ScoreCatch(partial) == DefaultScore

\* calculateSafetyScore once both awaits are over
calculateSafetyScore(hazardsOutcome, weatherOutcome) ==
    IF hazardsOutcome.kind = "threw" \/ weatherOutcome.kind = "threw"
    THEN Returned(ScoreCatch(<<>>))
    ELSE Returned(ComputeScore(hazardsOutcome.value, weatherOutcome.value))

(***************************************************************************)
(* Actions.                                                                *)
(***************************************************************************)
\* the three adapters run to their first await, in the order of the array
StartAdapters ==
    /\ eq' = Pending
    /\ wx' = Pending
    /\ region' = 1
    /\ allHazards' = <<>>
    /\ ls' = Pending

CallGetHazardsNearLocation(radiusKm) ==
    /\ pc = "idle"
    /\ op' = [name |-> "getHazardsNearLocation", lat |-> Reference.lat,
              lng |-> Reference.lng, radiusKm |-> radiusKm]
    /\ pc' = "awaitAll"
    /\ StartAdapters
    /\ log' = EmptyLog
    /\ last' = NoLast
    /\ mock' = EmptyLog
    /\ UNCHANGED <<weatherReq, currentResponse, hazards, outcome, now, raised, scores>>
    /\ UNCHANGED pageVars

\* every request of a hazard query refused
OutageLog ==
    [EmptyLog EXCEPT !.eq = <<Fail>>, !.wx = [i \in 1..NumRegions |-> Fail],
                     !.ls = <<Fail>>]

\* as RepeatGetHazardsNearLocation, but answering from the result of the first
\* query without a request
RepeatFromCache ==
    /\ pc = "done"
    /\ last # NoLast
    /\ ~Mocked
    /\ outcome' = Returned(last.result)
    /\ log' = EmptyLog
    /\ mock' = last.log
    /\ UNCHANGED <<op, pc, eq, wx, ls, region, allHazards, weatherReq,
                   currentResponse, hazards, now, last, raised, scores>>
    /\ UNCHANGED pageVars

\* the caller takes the result of a hazard query and makes the same query
\* again, the feeds replaying what they answered to the first, or all refusing
RepeatGetHazardsNearLocation ==
    /\ pc = "done"
    /\ last # NoLast
    /\ ~Mocked
    /\ op' = last.op
    /\ pc' = "awaitAll"
    /\ StartAdapters
    /\ outcome' = NoOutcome
    /\ log' = EmptyLog
    /\ mock' \in {last.log, OutageLog}
    /\ UNCHANGED <<weatherReq, currentResponse, hazards, now, last, raised, scores>>
    /\ UNCHANGED pageVars

CallCalculateSafetyScore ==
    /\ pc = "idle"
    /\ op' = [name |-> "calculateSafetyScore", lat |-> Reference.lat,
              lng |-> Reference.lng, radiusKm |-> 200]
    /\ pc' = "awaitAll"
    /\ StartAdapters
    /\ log' = EmptyLog
    /\ last' = NoLast
    /\ mock' = EmptyLog
    /\ UNCHANGED <<weatherReq, currentResponse, hazards, outcome, now, raised, scores>>
    /\ UNCHANGED pageVars

CallGetWeatherData ==
    /\ pc = "idle"
    /\ op' = [name |-> "getWeatherData", lat |-> Reference.lat,
              lng |-> Reference.lng, radiusKm |-> 0]
    /\ pc' = "awaitCurrent"
    /\ weatherReq' = "pending"
    /\ log' = EmptyLog
    /\ last' = NoLast
    /\ mock' = EmptyLog
    /\ UNCHANGED <<eq, wx, ls, region, allHazards, currentResponse, hazards,
                   outcome, now, raised, scores>>
    /\ UNCHANGED pageVars

\* no await inside: the call runs to its return
CallGetHeatmapData(radiusKm) ==
    /\ pc = "idle"
    /\ \E center \in HeatmapCenters :
         /\ op' = [name |-> "getHeatmapData", lat |-> center.lat,
                   lng |-> center.lng, radiusKm |-> radiusKm]
         /\ \E noise \in NoisePatterns(Len(GridPoints(center.lat, center.lng,
                                                         radiusKm))) :
              outcome' = getHeatmapData(center.lat, center.lng, radiusKm, noise)
    /\ pc' = "done"
    /\ log' = EmptyLog
    /\ last' = NoLast
    /\ mock' = EmptyLog
    /\ UNCHANGED <<eq, wx, ls, region, allHazards, weatherReq, currentResponse,
                   hazards, now, raised, scores>>
    /\ UNCHANGED pageVars

EqResponse ==
    /\ pc = "awaitAll"
    /\ eq.st = "pending"
    /\ \E response \in EqResponses :
         /\ eq' = fetchEarthquakes(response)
         /\ log' = [log EXCEPT !.eq = <<response>>]
    /\ UNCHANGED <<op, pc, wx, ls, region, allHazards, weatherReq, currentResponse,
                   hazards, outcome, now, last, mock, raised, scores>>
    /\ UNCHANGED pageVars

\* Date.now() is read in the map callback, once per city that passed the filter.
\* calculateSafetyScore never reads the stamp of a hazard, so inside it the
\* reading is kept at the last one.
ReadsClock(response) ==
    /\ op.name = "getHazardsNearLocation"
    /\ response.status = "ok"
    /\ \E i \in DOMAIN response.items : IsSevereCity(response.items[i])

\* one pass of the for loop: the answer for this region, then the next request
WxResponse ==
    /\ pc = "awaitAll"
    /\ wx.st = "pending"
    /\ Mocked => eq.st # "pending"
    /\ \E response \in WxResponses :
       \E t \in IF ReadsClock(response) THEN now..MaxClock ELSE {now} :
         /\ now' = t
         /\ allHazards' = fetchRegion(allHazards, response, t)
         /\ log' = [log EXCEPT !.wx = Append(@, response)]
    /\ IF region = NumRegions
       THEN wx' = Fulfilled(allHazards') /\ region' = region
       ELSE wx' = wx /\ region' = region + 1
    /\ UNCHANGED <<op, pc, eq, ls, weatherReq, currentResponse, hazards, outcome,
                   last, mock, raised, scores>>
    /\ UNCHANGED pageVars

LsResponse ==
    /\ pc = "awaitAll"
    /\ ls.st = "pending"
    /\ Mocked => eq.st # "pending" /\ wx.st # "pending"
    /\ \E response \in LsResponses :
         /\ ls' = fetchLandslides(response)
         /\ log' = [log EXCEPT !.ls = <<response>>]
    /\ UNCHANGED <<op, pc, eq, wx, region, allHazards, weatherReq, currentResponse,
                   hazards, outcome, now, last, mock, raised, scores>>
    /\ UNCHANGED pageVars

\* Promise.all has settled: getHazardsNearLocation returns.  The arrays of the
\* adapters are spread into allHazards, so their elements are the objects
\* filterHazardsByDistance is called with.
Aggregate ==
    /\ pc = "awaitAll"
    /\ PromiseAllSettled(<<eq, wx, ls>>)
    /\ LET result == getHazardsNearLocation(eq, wx, ls, op.lat, op.lng, op.radiusKm)
       IN  IF op.name = "getHazardsNearLocation"
           THEN /\ outcome' = result
                /\ pc' = "done"
                /\ last' = IF Mocked THEN last
                           ELSE [op |-> op, log |-> log, result |-> result.value]
                /\ UNCHANGED <<hazards, weatherReq>>
           ELSE /\ hazards' = result.value
                /\ pc' = "awaitCurrent"
                /\ weatherReq' = "pending"
                /\ UNCHANGED <<outcome, last>>
    /\ IF \E p \in {eq, wx, ls} : p.st = "rejected"
       THEN UNCHANGED <<eq, wx, ls>>
       ELSE LET after == InputAfterFilter(eq.val \o wx.val \o ls.val,
                                          op.lat, op.lng, op.radiusKm)
                n     == Len(eq.val)
                m     == Len(wx.val)
            IN  /\ eq' = [eq EXCEPT !.val = SubSeq(after, 1, n)]
                /\ wx' = [wx EXCEPT !.val = SubSeq(after, n + 1, n + m)]
                /\ ls' = [ls EXCEPT !.val = SubSeq(after, n + m + 1, Len(after))]
    /\ UNCHANGED <<op, region, allHazards, currentResponse, now, log,
                   mock, raised, scores>>
    /\ UNCHANGED pageVars

\* getWeatherData is over with outcome w
WeatherDone(w) ==
    /\ outcome' = IF op.name = "getWeatherData" THEN w
                  ELSE calculateSafetyScore(Returned(hazards), w)
    /\ scores' = IF op.name = "calculateSafetyScore" /\ w.kind = "returned"
                 THEN ClampedScores(hazards, w.value)
                 ELSE scores
    /\ pc' = "done"
    /\ weatherReq' = "idle"

CurrentResponse ==
    /\ pc = "awaitCurrent"
    /\ weatherReq = "pending"
    /\ \E response \in CurrentResponses :
         /\ log' = [log EXCEPT !.current = <<response>>]
         /\ IF response.status = "fail"
            THEN /\ WeatherDone(getWeatherData(response, Fail))
                 /\ UNCHANGED currentResponse
            ELSE /\ currentResponse' = response
                 /\ pc' = "awaitForecast"
                 /\ UNCHANGED <<outcome, weatherReq, scores>>
    /\ UNCHANGED <<op, eq, wx, ls, region, allHazards, hazards, now, last, mock,
                   raised>>
    /\ UNCHANGED pageVars

ForecastResponse ==
    /\ pc = "awaitForecast"
    /\ weatherReq = "pending"
    /\ \E response \in ForecastResponses :
         /\ log' = [log EXCEPT !.forecast = <<response>>]
         /\ WeatherDone(getWeatherData(currentResponse, response))
    /\ UNCHANGED <<op, eq, wx, ls, region, allHazards, currentResponse, hazards,
                   now, last, mock, raised>>
    /\ UNCHANGED pageVars

\* an adapter's request in flight that the upstream never answers (axios sets
\* no timeout)
StallAdapter ==
    /\ ~Mocked
    /\ \/ /\ pc = "awaitAll" /\ eq.st = "pending"
          /\ eq' = Stalled
          /\ UNCHANGED <<wx, ls>>
       \/ /\ pc = "awaitAll" /\ wx.st = "pending"
          /\ wx' = Stalled
          /\ UNCHANGED <<eq, ls>>
       \/ /\ pc = "awaitAll" /\ ls.st = "pending"
          /\ ls' = Stalled
          /\ UNCHANGED <<eq, wx>>
    /\ UNCHANGED <<op, pc, region, allHazards, weatherReq, currentResponse, hazards,
                   outcome, now, log, last, mock, raised, scores>>
    /\ UNCHANGED pageVars

\* a weather request in flight that the upstream never answers
StallWeather ==
    /\ ~Mocked
    /\ pc \in {"awaitCurrent", "awaitForecast"} /\ weatherReq = "pending"
    /\ weatherReq' = "stalled"
    /\ UNCHANGED <<op, pc, eq, wx, ls, region, allHazards, currentResponse, hazards,
                   outcome, now, log, last, mock, raised, scores>>
    /\ UNCHANGED pageVars

Stall ==
    \/ StallAdapter
    \/ StallWeather

\* the caller takes the result
Return ==
    /\ pc = "done"
    /\ op' = NoOp
    /\ pc' = "idle"
    /\ eq' = Idle
    /\ wx' = Idle
    /\ ls' = Idle
    /\ region' = 0
    /\ allHazards' = <<>>
    /\ weatherReq' = "idle"
    /\ currentResponse' = Fail
    /\ hazards' = <<>>
    /\ outcome' = NoOutcome
    /\ log' = EmptyLog
    /\ now' = 0
    /\ last' = NoLast
    /\ mock' = EmptyLog
    /\ raised' = FALSE
    /\ scores' = NoScores
    /\ UNCHANGED pageVars

\* an exception raised by a step of calculateSafetyScore's try block
RuntimeError ==
    /\ op.name = "calculateSafetyScore"
    /\ pc \in {"awaitAll", "awaitCurrent", "awaitForecast"}
    /\ outcome' = Returned(ScoreCatch(hazards))
    /\ pc' = "done"
    /\ raised' = TRUE
    /\ UNCHANGED <<op, eq, wx, ls, region, allHazards, weatherReq, currentResponse,
                   hazards, now, log, last, mock, scores>>
    /\ UNCHANGED pageVars

\* the steps of getHazardsNearLocation that the event loop runs
AggregatorProgress ==
    \/ EqResponse
    \/ WxResponse
    \/ LsResponse
    \/ Aggregate

Progress ==
    \/ AggregatorProgress
    \/ CurrentResponse
    \/ ForecastResponse

Next ==
    \/ \E radiusKm \in Radii : CallGetHazardsNearLocation(radiusKm)
    \/ RepeatGetHazardsNearLocation
    \/ CallCalculateSafetyScore
    \/ CallGetWeatherData
    \/ \E radiusKm \in HeatmapRadii : CallGetHeatmapData(radiusKm)
    \/ Progress
    \/ Stall
    \/ Return

Spec == Init /\ [][Next]_vars

\* one call of getHazardsNearLocation after another
AggregatorNext ==
    \/ \E radiusKm \in Radii : CallGetHazardsNearLocation(radiusKm)
    \/ AggregatorProgress
    \/ StallAdapter
    \/ Return

\* getHazardsNearLocation under a fair event loop: a request the upstream does
\* not stall is answered, and every continuation whose response has arrived is
\* run
FairSpec == Init /\ [][AggregatorNext]_vars /\ WF_vars(AggregatorProgress)

\* Spec, with exceptions raised inside calculateSafetyScore
FaultSpec == Init /\ [][Next \/ RuntimeError]_vars

(***************************************************************************)
(* getWeatherData, alone or inside calculateSafetyScore, from the moment   *)
(* the current-weather request was answered with a snapshot: the readings  *)
(* range over both sides of every threshold of analyzeWeatherData.  Inside *)
(* calculateSafetyScore the aggregator had returned no hazard.             *)
(***************************************************************************)
Readings ==
    [ temperature : {3, 5, 8, 10, 20, 40, 42, 45, 46},
      windSpeed   : {5, 15, 16, 20, 25},
      rainfall    : {0, 20, 25, 50, 60},
      visibility  : {500, 1000, 1500, 2000, 10000} ]

\* every request of a hazard query answered, with no event
QuietLog ==
    [EmptyLog EXCEPT !.eq = <<Ok(<<>>)>>, !.wx = [i \in 1..NumRegions |-> Ok(<<>>)],
                     !.ls = <<Ok(<<>>)>>]

SnapshotInit ==
    /\ \E s \in Readings :
         /\ currentResponse = Ok(<<s>>)
         /\ \/ /\ op = [name |-> "getWeatherData", lat |-> Reference.lat,
                         lng |-> Reference.lng, radiusKm |-> 0]
               /\ eq = Idle /\ wx = Idle /\ ls = Idle
               /\ region = 0
               /\ log = [EmptyLog EXCEPT !.current = <<Ok(<<s>>)>>]
            \/ /\ op = [name |-> "calculateSafetyScore", lat |-> Reference.lat,
                         lng |-> Reference.lng, radiusKm |-> 200]
               /\ eq = Fulfilled(<<>>) /\ wx = Fulfilled(<<>>) /\ ls = Fulfilled(<<>>)
               /\ region = NumRegions
               /\ log = [QuietLog EXCEPT !.current = <<Ok(<<s>>)>>]
    /\ pc = "awaitForecast"
    /\ weatherReq = "pending"
    /\ allHazards = <<>>
    /\ hazards = <<>>
    /\ outcome = NoOutcome
    /\ now = 0
    /\ last = NoLast
    /\ mock = EmptyLog
    /\ raised = FALSE
    /\ scores = NoScores
    /\ PageInit

SnapshotSpec == SnapshotInit /\ [][ForecastResponse]_vars

(***************************************************************************)
(* The HazardReports page (pages/HazardReports.tsx).  When its location    *)
(* changes, an effect sets activeLocation and calls fetchHazards,          *)
(* fetchWeatherData, fetchSafetyScore and fetchHeatmapData; each sets its  *)
(* loading flag, awaits the service and, when resumed, stores the result   *)
(* and clears the flag.  No call is cancelled or checked against the       *)
(* active location.  A result of the service is stood for by the location  *)
(* it was computed for; the service never throws, so no catch block runs.  *)
(***************************************************************************)
Locations == {"A", "B"}

Kinds == {"hazards", "weather", "safety", "heatmap"}

\* getHeatmapData awaits nothing: the promise fetchHeatmapData awaits is
\* already resolved, and its continuation is a microtask, run before any
\* response of the network or click of the user is handled
MicrotaskQueued == \E f \in fetches : f.kind = "heatmap"

\* the body of either effect, run when the location is another one than
\* before: setActiveLocation, then the four fetches up to their await
LocationChange(location) ==
    /\ selected < MaxSelections
    /\ location # page.activeLocation
    /\ ~MicrotaskQueued
    /\ selected' = selected + 1
    /\ page' = [page EXCEPT !.activeLocation = location,
                            !.loading = TRUE,
                            !.error = "none",
                            !.weatherLoading = TRUE,
                            !.safetyLoading = TRUE,
                            !.heatmapLoading = TRUE]
    /\ fetches' = fetches \cup { [kind |-> k, location |-> location, n |-> selected']
                                  : k \in Kinds }
    /\ UNCHANGED serviceVars

\* fetchHazards from its await on: setHazards(hazardsData); setLoading(false)
ResumeFetchHazards(f) ==
    /\ f \in fetches /\ f.kind = "hazards"
    /\ ~MicrotaskQueued
    /\ page' = [page EXCEPT !.hazards = f.location, !.loading = FALSE]
    /\ fetches' = fetches \ {f}
    /\ UNCHANGED <<selected, serviceVars>>

\* fetchWeatherData from its await on
ResumeFetchWeatherData(f) ==
    /\ f \in fetches /\ f.kind = "weather"
    /\ ~MicrotaskQueued
    /\ page' = [page EXCEPT !.weatherData = f.location, !.weatherLoading = FALSE]
    /\ fetches' = fetches \ {f}
    /\ UNCHANGED <<selected, serviceVars>>

\* fetchSafetyScore from its await on
ResumeFetchSafetyScore(f) ==
    /\ f \in fetches /\ f.kind = "safety"
    /\ ~MicrotaskQueued
    /\ page' = [page EXCEPT !.safetyScore = f.location, !.safetyLoading = FALSE]
    /\ fetches' = fetches \ {f}
    /\ UNCHANGED <<selected, serviceVars>>

\* fetchHeatmapData from its await on
ResumeFetchHeatmapData(f) ==
    /\ f \in fetches /\ f.kind = "heatmap"
    /\ page' = [page EXCEPT !.heatmapData = f.location, !.heatmapLoading = FALSE]
    /\ fetches' = fetches \ {f}
    /\ UNCHANGED <<selected, serviceVars>>

PageNext ==
    \/ \E location \in Locations : LocationChange(location)
    \/ \E f \in fetches : ResumeFetchHazards(f)
    \/ \E f \in fetches : ResumeFetchWeatherData(f)
    \/ \E f \in fetches : ResumeFetchSafetyScore(f)
    \/ \E f \in fetches : ResumeFetchHeatmapData(f)

PageSpec == Init /\ [][PageNext]_vars

(***************************************************************************)
(* Properties.                                                             *)
(***************************************************************************)
Done(name) == pc = "done" /\ op.name = name

AllFailed(responses, n) ==
    Len(responses) = n /\ \A i \in DOMAIN responses : responses[i] = Fail

\* every request the scorer issued was refused by the network
EveryUpstreamFailed ==
    /\ AllFailed(log.eq, 1)
    /\ AllFailed(log.wx, NumRegions)
    /\ AllFailed(log.ls, 1)
    /\ AllFailed(log.current, 1)

\* C1 as stated: with every upstream request failing, calculateSafetyScore
\* returns the neutral default {50, 50, 50, 50, ["Error calculating safety score"]}.
C1_DefaultWhenAllFail ==
    (Done("calculateSafetyScore") /\ EveryUpstreamFailed)
        => outcome = Returned(DefaultScore)

\* C1 amended: with every upstream request failing, calculateSafetyScore returns
\* overall 94, earthquake 100, weather 85, landslide 100 and the explanations
\* "No recent earthquake activity detected", "Weather data unavailable",
\* "No landslide activity detected": the adapters and getWeatherData absorb the
\* failures, so the scorer's catch block is not entered.
C1_DegradedWhenAllFail ==
    (Done("calculateSafetyScore") /\ EveryUpstreamFailed)
        => outcome = Returned(
             [ overall |-> 94, earthquake |-> 100, weather |-> 85, landslide |-> 100,
               explanation |->
                 << Expl("No recent earthquake activity detected", 0, 0),
                    Expl("Weather data unavailable", 0, 0),
                    Expl("No landslide activity detected", 0, 0) >> ])

C1_Witness == Done("calculateSafetyScore") /\ EveryUpstreamFailed

\* C2 as stated: the returned overall equals round(0.4 * earthquake + 0.4 * weather
\* + 0.2 * landslide) of the returned (rounded) sub-scores.
C2_OverallOfReturnedFields ==
    Done("calculateSafetyScore")
        => outcome.value.overall =
             MathRound(Weighted(RatInt(outcome.value.earthquake),
                                RatInt(outcome.value.weather),
                                RatInt(outcome.value.landslide)))

\* C2 amended: the returned overall equals round(0.4 * E + 0.4 * W + 0.2 * L) of the
\* clamped sub-scores E, W, L before they are rounded; the returned sub-scores are
\* round(E), round(W), round(L), so overall is within 1 of the weighted sum of the
\* returned fields.  On the catch path all four are 50.
C2_OverallOfUnroundedScores ==
    Done("calculateSafetyScore")
        => \/ outcome = Returned(DefaultScore)
           \/ /\ outcome.value.overall =
                   MathRound(Weighted(scores.earthquake, scores.weather,
                                      scores.landslide))
              /\ outcome.value.earthquake = MathRound(scores.earthquake)
              /\ outcome.value.weather = MathRound(scores.weather)
              /\ outcome.value.landslide = MathRound(scores.landslide)
              /\ Abs(outcome.value.overall -
                     MathRound(Weighted(RatInt(outcome.value.earthquake),
                                        RatInt(outcome.value.weather),
                                        RatInt(outcome.value.landslide)))) <= 1

\* a score whose earthquake sub-score is not an integer before rounding
C2_Witness ==
    /\ Done("calculateSafetyScore")
    /\ scores.earthquake[2] # 1
    /\ outcome.value.overall #
         MathRound(Weighted(RatInt(outcome.value.earthquake),
                            RatInt(outcome.value.weather),
                            RatInt(outcome.value.landslide)))

\* C3: overall, earthquake, weather and landslide of every returned SafetyScore lie
\* in [0, 100], on the scoring path and on the catch path.
C3_ScoresInRange ==
    Done("calculateSafetyScore")
        => /\ outcome.kind = "returned"
           /\ \A x \in { outcome.value.overall, outcome.value.earthquake,
                         outcome.value.weather, outcome.value.landslide } :
                x \in 0..100

\* the impacts of two landslides add up to more than 100 and the clamp acts
C3_Witness ==
    /\ Done("calculateSafetyScore")
    /\ ~raised
    /\ RatLess(RawScores(hazards, WeatherFallback).landslide, RatInt(0))
    /\ outcome.value.landslide = 0

Rank(severity) ==
    CASE severity = "low" -> 0 [] severity = "medium" -> 1 [] severity = "high" -> 2

\* the levels at which the five threshold rules trigger on a snapshot, read off
\* the table of thresholds
TriggeredLevels(c) ==
    { IF c.temperature >= 45 THEN 2 ELSE IF c.temperature >= 40 THEN 1 ELSE 0,
      IF c.temperature <= 5 THEN 2 ELSE IF c.temperature <= 10 THEN 1 ELSE 0,
      IF c.windSpeed >= 20 THEN 2 ELSE IF c.windSpeed >= 15 THEN 1 ELSE 0,
      IF c.rainfall >= 50 THEN 2 ELSE IF c.rainfall >= 20 THEN 1 ELSE 0,
      IF c.visibility < 1000 THEN 2 ELSE IF c.visibility < 2000 THEN 1 ELSE 0 }

WeatherParsed ==
    /\ Done("getWeatherData")
    /\ log.current # <<>> /\ log.current[1].status = "ok"
    /\ log.forecast # <<>> /\ log.forecast[1].status = "ok"

\* C4 as stated: the severity the weather analyzer returns is the maximum, under
\* low < medium < high, of the severities of the rules that triggered; a later
\* rule triggering at a lower level never lowers it.
C4_SeverityIsMaximum ==
    WeatherParsed
        => \A level \in TriggeredLevels(log.current[1].items[1]) :
             Rank(outcome.value.severity) >= level

\* C5 as stated: with identical upstream responses, two calls of
\* getHazardsNearLocation with the same arguments return identical lists, every
\* field of every hazard equal, id and timestamp included.
C5_IdenticalResults ==
    (Done("getHazardsNearLocation") /\ Mocked /\ log = last.log)
        => outcome.value = last.result

\* a hazard without what the time of the call decides
Timeless(h) ==
    IF h.type = "weather"
    THEN [h EXCEPT !.id = <<h.id[1], h.id[2], 0>>, !.timestamp = 0]
    ELSE h

\* C5 amended: with identical upstream responses, two calls with the same
\* arguments return lists of the same length and order in which every field of
\* every hazard is equal, except the id and the timestamp of the hazards of type
\* weather, which embed the time of the call (Date.now()).
C5_IdenticalUpToCallTime ==
    (Done("getHazardsNearLocation") /\ Mocked /\ log = last.log)
        => /\ Len(outcome.value) = Len(last.result)
           /\ \A i \in DOMAIN outcome.value :
                Timeless(outcome.value[i]) = Timeless(last.result[i])

\* the second call is over and a weather hazard carries another time than before
C5_Witness ==
    /\ Done("getHazardsNearLocation") /\ Mocked /\ log = last.log
    /\ \E i \in DOMAIN outcome.value :
         /\ outcome.value[i].type = "weather"
         /\ outcome.value[i].timestamp # last.result[i].timestamp

Range(q) == { q[i] : i \in DOMAIN q }

\* the items of the feeds' answers that reached an adapter (a failed or malformed
\* answer carries none)
Items(responses) == UNION { Range(r.items) : r \in Range(responses) }

InRadius(lat) ==
    calculateDistance(op.lat, op.lng, lat, 0) <= op.radiusKm * 1000

\* <<kind, id>> of what the adapters that succeeded produced within the radius
ExpectedIds ==
    { <<"eq", e.id>> : e \in { x \in Items(log.eq) : InRadius(x.lat) } }
    \cup { <<"weather", c.id>> :
             c \in { x \in Items(log.wx) : x.main # "Clear" /\ InRadius(x.lat) } }
    \cup { <<"landslide", e.id>> :
             e \in { x \in Items(log.ls) :
                       x.geometry # <<>> /\ InRadius(x.geometry[1]) } }

RECURSIVE ExpectedCount(_)
ExpectedCount(responses) ==
    IF responses = <<>> THEN 0
    ELSE Cardinality({ i \in DOMAIN Head(responses).items :
             LET x == Head(responses).items[i]
             IN  IF "mag" \in DOMAIN x THEN InRadius(x.lat)
                 ELSE IF "main" \in DOMAIN x THEN x.main # "Clear" /\ InRadius(x.lat)
                 ELSE x.geometry # <<>> /\ InRadius(x.geometry[1]) })
         + ExpectedCount(Tail(responses))

\* C6: whichever adapters fail, getHazardsNearLocation returns exactly the
\* in-radius hazards of the adapters that succeeded, sorted by distance; a failed
\* adapter contributes nothing and does not empty the result.
C6_PartialResults ==
    Done("getHazardsNearLocation")
        => /\ outcome.kind = "returned"
           /\ { <<h.id[1], h.id[2]>> : h \in Range(outcome.value) } = ExpectedIds
           /\ Len(outcome.value) = ExpectedCount(log.eq \o log.wx \o log.ls)
           /\ \A i \in DOMAIN outcome.value :
                /\ outcome.value[i].distance <= op.radiusKm * 1000
                /\ i > 1 => outcome.value[i - 1].distance <= outcome.value[i].distance

\* two adapters failed, the third one's hazards are returned
C6_Witness ==
    /\ Done("getHazardsNearLocation")
    /\ log.eq[1].status # "ok"
    /\ \A i \in DOMAIN log.wx : log.wx[i].status # "ok"
    /\ log.ls[1].status = "ok"
    /\ Len(outcome.value) = 2

\* C7 as stated: every call of getHazardsNearLocation eventually returns, also
\* when an adapter's upstream request never completes.
C7_EventuallyReturns ==
    (op.name = "getHazardsNearLocation" /\ pc = "awaitAll") ~> (pc = "done")

AdapterStates == {eq.st, wx.st, ls.st}

\* C8: the three adapters are all started before any is awaited, and the
\* merge / filter / sort step runs only once all three have settled, each with a
\* list; the aggregator never filters while an adapter is in flight.
C8_JoinAfterAllSettled ==
    /\ [](pc = "awaitAll" => "idle" \notin AdapterStates)
    /\ []("idle" \in AdapterStates => AdapterStates = {"idle"})
    /\ [][(pc = "awaitAll" /\ pc' # "awaitAll") => AdapterStates = {"fulfilled"}]_vars

\* the aggregator returned hazards of two adapters after all three had settled
C8_Witness ==
    /\ Done("getHazardsNearLocation")
    /\ AdapterStates = {"fulfilled"}
    /\ eq.val # <<>>
    /\ ls.val # <<>>
    /\ Len(outcome.value) = 2

PublicOperations ==
    {"getHazardsNearLocation", "getWeatherData", "calculateSafetyScore",
     "getHeatmapData"}

\* C9: none of the four public operations surfaces an exception, whatever the
\* feeds do: each returns; getWeatherData returns its fallback when a weather
\* request fails or is malformed, getHazardsNearLocation an empty list when
\* every adapter fails.
C9_NeverThrows ==
    /\ outcome.kind # "threw"
    /\ pc = "done" => op.name \in PublicOperations /\ outcome.kind = "returned"
    /\ (Done("getWeatherData") /\ ~WeatherParsed)
          => outcome = Returned(WeatherFallback)
    /\ (Done("getHazardsNearLocation") /\ Items(log.eq \o log.wx \o log.ls) = {})
          => outcome = Returned(<<>>)

\* getWeatherData is over after a malformed answer of the weather feed
C9_Witness ==
    /\ Done("getWeatherData")
    /\ Malformed \in Range(log.current \o log.forecast)
    /\ outcome = Returned(WeatherFallback)

\* C10: an exception raised by a step of calculateSafetyScore makes the call
\* return exactly the neutral default, never a partly computed score, and is not
\* propagated.
C10_DefaultOnException ==
    raised => /\ Done("calculateSafetyScore")
              /\ outcome = Returned(DefaultScore)

\* the exception came after the aggregator had returned hazards
C10_Witness ==
    /\ raised
    /\ hazards # <<>>
    /\ outcome = Returned(DefaultScore)

\* filterHazardsByDistance has run for the operation in progress
FilterApplied ==
    \/ Done("getHazardsNearLocation")
    \/ op.name = "calculateSafetyScore" /\ pc \in {"awaitCurrent", "awaitForecast"}

\* what it returned
FilterResult == IF op.name = "getHazardsNearLocation" THEN outcome.value ELSE hazards

\* C11: every hazard filterHazardsByDistance returns carries its distance from
\* the reference point, 0 <= distance <= radiusKm, and every hazard the adapters
\* produced within radiusKm of the reference point is in the list.
C11_WithinRadiusAndComplete ==
    FilterApplied
        => /\ \A h \in Range(FilterResult) :
                /\ h.distance = calculateDistance(op.lat, op.lng, h.lat, h.lng)
                /\ 0 <= h.distance
                /\ h.distance <= op.radiusKm * 1000
           /\ ExpectedIds \subseteq { <<h.id[1], h.id[2]>> : h \in Range(FilterResult) }

\* the feeds delivered a hazard outside the radius and one inside, and the
\* list holds the one inside
C11_Witness ==
    /\ FilterApplied
    /\ \E x \in Items(log.eq) : ~InRadius(x.lat)
    /\ \E x \in Items(log.eq) : InRadius(x.lat)
    /\ Len(FilterResult) = 1

\* C12: the list is in ascending order of distance.
C12_SortedByDistance ==
    FilterApplied
        => \A i, j \in DOMAIN FilterResult :
             i < j => FilterResult[i].distance <= FilterResult[j].distance

\* a landslide precedes a farther earthquake, which the merge had put first
C12_Witness ==
    /\ FilterApplied
    /\ Len(FilterResult) = 2
    /\ FilterResult[1].type = "landslide"
    /\ FilterResult[2].type = "earthquake"
    /\ FilterResult[1].distance < FilterResult[2].distance

\* the points getHeatmapData returned
HeatmapPoints == IF Done("getHeatmapData") THEN outcome.value ELSE <<>>

\* C13 as stated: for every centre and every radius >= 0, the intensity of every
\* point getHeatmapData returns is a number in [0, 100].
C13_IntensityInRange ==
    \A p \in Range(HeatmapPoints) :
        /\ ~IsNaN(p.intensity)
        /\ RatLeq(RatInt(0), p.intensity)
        /\ RatLeq(p.intensity, RatInt(100))

\* one step of the grid, 0.5 degrees, as a distance
GridStep == calculateDistance(0, 0, 500, 0)

\* C14: every point getHeatmapData returns lies within radius plus one grid step
\* of the centre.
C14_PointsWithinRadius ==
    \A p \in Range(HeatmapPoints) :
        calculateDistance(op.lat, op.lng, p.lat, p.lng)
            <= op.radiusKm * 1000 + GridStep

\* the loops enumerated a cell farther than radius plus one step, and the
\* points returned are fewer than the cells
C14_Witness ==
    /\ Done("getHeatmapData")
    /\ \E c \in Range(GridCells(op.lat, op.lng, op.radiusKm)) :
         calculateDistance(op.lat, op.lng, c.lat, c.lng)
             > op.radiusKm * 1000 + GridStep
    /\ Len(HeatmapPoints) > 0
    /\ Len(HeatmapPoints) < Len(GridCells(op.lat, op.lng, op.radiusKm))

\* C15 as stated: the number of cells getHeatmapData enumerates is capped by a
\* fixed maximum whatever the radius.  The source names no maximum; a fixed one
\* admits the call with the default radius, so that call's count stands for it.
C15_GridCellsCapped ==
    Done("getHeatmapData")
        => Len(GridCells(op.lat, op.lng, op.radiusKm))
             <= Len(GridCells(op.lat, op.lng, DefaultRadius))

\* the points calculateDistance was applied to with the reference point
MeasuredPoints ==
    IF Done("getHeatmapData") THEN HeatmapPoints
    ELSE IF FilterApplied THEN FilterResult
    ELSE <<>>

\* C17: calculateDistance is symmetric, and 0 on identical points.
C17_SymmetricAndZero ==
    /\ calculateDistance(op.lat, op.lng, op.lat, op.lng) = 0
    /\ \A i \in DOMAIN MeasuredPoints :
         LET p == MeasuredPoints[i]
         IN  /\ calculateDistance(p.lat, p.lng, p.lat, p.lng) = 0
             /\ calculateDistance(op.lat, op.lng, p.lat, p.lng)
                  = calculateDistance(p.lat, p.lng, op.lat, op.lng)
             /\ i > 1 =>
                  LET q == MeasuredPoints[i - 1]
                  IN  calculateDistance(q.lat, q.lng, p.lat, p.lng)
                        = calculateDistance(p.lat, p.lng, q.lat, q.lng)

\* a point off both axes of the centre
C17_Witness ==
    /\ Done("getHeatmapData")
    /\ \E p \in Range(HeatmapPoints) :
         /\ p.lat # op.lat /\ p.lng # op.lng
         /\ calculateDistance(op.lat, op.lng, p.lat, p.lng) > 0

RECURSIVE ReplayRegions(_, _)
\* fetchWeatherDisasters' loop over the answers of a log
ReplayRegions(responses, acc) ==
    IF responses = <<>> THEN acc
    ELSE ReplayRegions(Tail(responses), fetchRegion(acc, Head(responses), 0))

\* the operation in progress received an answer to each request of the
\* aggregator
HazardRequestsAnswered ==
    Len(log.eq) = 1 /\ Len(log.wx) = NumRegions /\ Len(log.ls) = 1

\* the aggregator's result, computed from the answers of the log alone
OwnHazards ==
    getHazardsNearLocation(fetchEarthquakes(log.eq[1]),
                           Fulfilled(ReplayRegions(log.wx, <<>>)),
                           fetchLandslides(log.ls[1]),
                           op.lat, op.lng, op.radiusKm).value

\* getWeatherData's result, computed from the answers of the log alone; the
\* forecast is not requested when the current weather was refused
OwnWeather ==
    getWeatherData(log.current[1],
                   IF log.forecast = <<>> THEN Fail ELSE log.forecast[1])

\* C16: a call of getHazardsNearLocation, getWeatherData or calculateSafetyScore
\* that returned has had its own upstream requests answered, and its result is
\* the one its own answers give (the call time of weather hazards apart),
\* whatever an earlier call received.
C16_FreshEachQuery ==
    /\ Done("getHazardsNearLocation")
         => /\ HazardRequestsAnswered
            /\ Len(outcome.value) = Len(OwnHazards)
            /\ \A i \in DOMAIN outcome.value :
                 Timeless(outcome.value[i]) = Timeless(OwnHazards[i])
    /\ Done("getWeatherData")
         => Len(log.current) = 1 /\ outcome = OwnWeather
    /\ Done("calculateSafetyScore")
         => /\ HazardRequestsAnswered
            /\ Len(log.current) = 1
            /\ outcome = calculateSafetyScore(Returned(OwnHazards), OwnWeather)

\* the first query returned hazards; in the second every feed refuses, and the
\* second returns none
C16_Witness ==
    /\ Done("getHazardsNearLocation")
    /\ Mocked
    /\ last.result # <<>>
    /\ log = OutageLog
    /\ outcome.value = <<>>

\* calculateSafetyScore returned from its try block
Scored == Done("calculateSafetyScore") /\ outcome # Returned(DefaultScore)

RECURSIVE SumImpacts(_, _)
\* the sum the claims state over the hazards of a type: magnitude * 10 (for a
\* landslide, 100) / max(distance, 1), a hazard at distance 0 included
SumImpacts(list, type) ==
    IF list = <<>> THEN RatInt(0)
    ELSE LET h == Head(list)
             impact == IF h.type # type THEN RatInt(0)
                       ELSE Impact(IF type = "earthquake" THEN h.magnitude ELSE 100,
                                   h.distance)
         IN  RatAdd(impact, SumImpacts(Tail(list), type))

\* C18 as stated: the earthquake sub-score before rounding is
\* clamp(100 - sum of impacts, 0, 100) over every earthquake hazard within 200 km,
\* impact = magnitude * 10 / max(distance, 1), a hazard at distance 0 counting
\* magnitude * 10.
C18_EarthquakeScore ==
    Scored
        => scores.earthquake
             = Clamp100(RatSub(RatInt(100), SumImpacts(hazards, "earthquake")))

\* C19 as stated: the landslide sub-score before rounding is
\* clamp(100 - sum of impacts, 0, 100) over every landslide hazard within 200 km,
\* impact = 100 / max(distance, 1), a landslide at distance 0 counting 100.
C19_LandslideScore ==
    Scored
        => scores.landslide
             = Clamp100(RatSub(RatInt(100), SumImpacts(hazards, "landslide")))

\* the texts of the explanations returned
Texts == [i \in DOMAIN outcome.value.explanation |-> outcome.value.explanation[i].text]

\* C20: the weather sub-score is clamp(100 - 15 * n, 0, 100), n the number of
\* warnings getWeatherData returned; the warnings appear among the explanations
\* in the order returned, and "No severe weather warnings" appears exactly when
\* n = 0.
C20_WeatherScore ==
    Scored
        => LET warnings == OwnWeather.value.warnings
               n == Len(warnings)
               isWarning(text) == text \in Range(warnings)
           IN  /\ scores.weather = Clamp100(RatInt(100 - 15 * n))
               /\ outcome.value.weather = MathRound(scores.weather)
               /\ SelectSeq(Texts, isWarning) = warnings
               /\ ("No severe weather warnings" \in Range(Texts)) <=> (n = 0)

\* a snapshot with several warnings, scored
C20_Witness ==
    /\ Scored
    /\ Len(OwnWeather.value.warnings) >= 2
    /\ outcome.value.weather = 100 - 15 * Len(OwnWeather.value.warnings)

\* the warnings of one rule: its high and its medium text
RuleWarnings ==
    [ heat       |-> {"Extreme Heat Warning - Heat Wave Conditions",
                      "Heat Advisory - High Temperature Alert"},
      cold       |-> {"Extreme Cold Warning - Cold Wave Conditions",
                      "Cold Weather Advisory"},
      wind       |-> {"High Wind Warning", "Wind Advisory"},
      rain       |-> {"Heavy Rainfall Warning - Flood Risk", "Rainfall Advisory"},
      visibility |-> {"Low Visibility Warning", "Reduced Visibility Advisory"} ]

\* the rules whose medium-or-high threshold a snapshot meets
RulesMet(c) ==
    { r \in DOMAIN RuleWarnings :
        CASE r = "heat"       -> c.temperature >= 40
          [] r = "cold"       -> c.temperature <= 10
          [] r = "wind"       -> c.windSpeed >= 15
          [] r = "rain"       -> c.rainfall >= 20
          [] r = "visibility" -> c.visibility < 2000 }

\* C21: on every snapshot the analyzer returns exactly one warning for each of
\* the five rules whose medium-or-high threshold is met and none for the
\* others; with no rule met the severity is low and the list is empty; on
\* temperature 46, wind 5, rain 0, visibility 10 km the severity is high and
\* there is exactly one warning.
C21_OneWarningPerRule ==
    WeatherParsed
        => LET c == log.current[1].items[1]
               warnings == outcome.value.warnings
           IN  /\ \A r \in DOMAIN RuleWarnings :
                    Cardinality({ i \in DOMAIN warnings : warnings[i] \in RuleWarnings[r] })
                      = IF r \in RulesMet(c) THEN 1 ELSE 0
               /\ Len(warnings) = Cardinality(RulesMet(c))
               /\ RulesMet(c) = {}
                    => outcome.value.severity = "low" /\ warnings = <<>>
               /\ c = [temperature |-> 46, windSpeed |-> 5, rainfall |-> 0,
                       visibility |-> 10000]
                    => outcome.value.severity = "high" /\ Len(warnings) = 1

\* the snapshot of the example, analyzed
C21_Witness ==
    /\ WeatherParsed
    /\ log.current[1].items[1] = [temperature |-> 46, windSpeed |-> 5, rainfall |-> 0,
                                  visibility |-> 10000]
    /\ outcome.value.warnings = <<"Extreme Heat Warning - Heat Wave Conditions">>
    /\ outcome.value.severity = "high"

\* both weather requests of calculateSafetyScore were answered with data
SnapshotFetched ==
    /\ Done("calculateSafetyScore")
    /\ log.current # <<>> /\ log.current[1].status = "ok"
    /\ log.forecast # <<>> /\ log.forecast[1].status = "ok"

\* C27: on a snapshot that was fetched the analyzer returns at most 4 warnings
\* (the heat rule and the cold rule never both trigger), so the weather
\* sub-score calculateSafetyScore returns is one of 100, 85, 70, 55, 40.
C27_AtMostFourWarnings ==
    /\ WeatherParsed
         => /\ Len(outcome.value.warnings) <= 4
            /\ ~(\E i, j \in DOMAIN outcome.value.warnings :
                    /\ outcome.value.warnings[i] \in RuleWarnings.heat
                    /\ outcome.value.warnings[j] \in RuleWarnings.cold)
    /\ SnapshotFetched
         => /\ outcome.value.weather \in {100, 85, 70, 55, 40}
            /\ outcome.value.weather = 100 - 15 * Cardinality(RulesMet(log.current[1].items[1]))

\* four rules met at once: the lowest weather sub-score
C27_Witness ==
    /\ SnapshotFetched
    /\ Cardinality(RulesMet(log.current[1].items[1])) = 4
    /\ outcome.value.weather = 40

\* an adapter's request was answered with a failure, network or parse
FailedAnswer(responses) == \E i \in DOMAIN responses : responses[i].status # "ok"

\* C22 as stated: for each of the three adapters, any network or parse failure
\* during its fetch makes the adapter return an empty list, and no adapter
\* throws to its caller.
C22_EmptyOnAnyFailure ==
    /\ "rejected" \notin AdapterStates
    /\ (eq.st = "fulfilled" /\ FailedAnswer(log.eq)) => eq.val = <<>>
    /\ (wx.st = "fulfilled" /\ FailedAnswer(log.wx)) => wx.val = <<>>
    /\ (ls.st = "fulfilled" /\ FailedAnswer(log.ls)) => ls.val = <<>>

\* C22 amended: no adapter throws to its caller; fetchEarthquakes and
\* fetchLandslides return an empty list when their request fails; in
\* fetchWeatherDisasters a failed region is skipped, the adapter returning the
\* hazards of the regions that answered, and an empty list when every region
\* failed.
C22_FailureAbsorbed ==
    /\ "rejected" \notin AdapterStates
    /\ (eq.st = "fulfilled" /\ FailedAnswer(log.eq)) => eq.val = <<>>
    /\ (ls.st = "fulfilled" /\ FailedAnswer(log.ls)) => ls.val = <<>>
    /\ (wx.st = "fulfilled" /\ Len(log.wx) = NumRegions)
         => /\ { h.id[2] : h \in Range(wx.val) }
                 = { c.id : c \in { x \in Items(log.wx) : x.main # "Clear" } }
            /\ \A h \in Range(wx.val) : h.type = "weather"
            /\ (\A i \in DOMAIN log.wx : log.wx[i].status # "ok") => wx.val = <<>>

\* the last region failed, and the adapter returned the hazard of an earlier one
C22_Witness ==
    /\ wx.st = "fulfilled"
    /\ Len(log.wx) = NumRegions
    /\ log.wx[NumRegions].status # "ok"
    /\ wx.val # <<>>

\* C23 as stated: the grid has a fixed 0.5 degree step between rows and a step
\* between columns corrected by cos(center latitude): adjacent columns are not
\* 0.5 degrees apart when the centre is off the equator.
C23_LngStepCorrected ==
    \A i \in DOMAIN HeatmapPoints :
        i > 1 =>
          LET p == HeatmapPoints[i - 1]
              q == HeatmapPoints[i]
          IN  /\ p.lat # q.lat => q.lat - p.lat = 500
              /\ (p.lat = q.lat /\ op.lat # 0) => q.lng - p.lng # 500

\* the first and the last column of the grid
WestColumn == GridCells(op.lat, op.lng, op.radiusKm)[1].lng

EastColumn ==
    LET cells == GridCells(op.lat, op.lng, op.radiusKm) IN cells[Len(cells)].lng

\* C23 amended: rows and columns are both a fixed 0.5 degrees apart, at every
\* centre latitude; cos(center latitude) corrects the extent of the grid in
\* longitude, not its step: the columns start radiusKm / (111 * cos(center
\* latitude)) degrees west of the centre and end less than a step short of the
\* same extent east of it.
C23_FixedStepCorrectedRange ==
    Done("getHeatmapData")
        => /\ \A i \in DOMAIN HeatmapPoints :
                i > 1 =>
                  LET p == HeatmapPoints[i - 1]
                      q == HeatmapPoints[i]
                  IN  /\ p.lat # q.lat => q.lat - p.lat = 500
                      /\ p.lat = q.lat => q.lng - p.lng = 500
           /\ LET lngRange == (op.radiusKm * 1000000) \div (111 * CosPermille(op.lat))
              IN  /\ WestColumn = op.lng - lngRange
                  /\ op.lng + lngRange - 500 < EastColumn
                  /\ EastColumn <= op.lng + lngRange
                  /\ op.lat = 60000 => lngRange = 2 * ((op.radiusKm * 1000) \div 111)
                                         \/ lngRange = 2 * ((op.radiusKm * 1000) \div 111) + 1

\* a grid around a centre at 60 degrees north, two neighbours of a row returned
C23_Witness ==
    /\ Done("getHeatmapData")
    /\ op.lat = 60000
    /\ \E i \in DOMAIN HeatmapPoints :
         /\ i > 1
         /\ HeatmapPoints[i - 1].lat = HeatmapPoints[i].lat
         /\ HeatmapPoints[i].lng - HeatmapPoints[i - 1].lng = 500

\* the hazards the adapters returned, in the order of the merge
Merged == eq.val \o wx.val \o ls.val

\* C24: filterHazardsByDistance leaves its input as it was: the hazards it was
\* given keep their number, their order and every field, none gaining a
\* distance; every hazard it returns equals one it was given in all fields but
\* the added distance.
C24_InputUnchanged ==
    [][ (pc = "awaitAll" /\ pc' # "awaitAll")
          => /\ eq'.val = eq.val /\ wx'.val = wx.val /\ ls'.val = ls.val
             /\ \A i \in DOMAIN Merged : "distance" \notin DOMAIN Merged[i]
             /\ \A i \in 1..(Len(eq'.val) + Len(wx'.val) + Len(ls'.val)) :
                  "distance" \notin DOMAIN (eq'.val \o wx'.val \o ls'.val)[i]
             /\ LET output == IF op.name = "getHazardsNearLocation"
                              THEN outcome'.value ELSE hazards'
                IN  \A i \in DOMAIN output :
                      \E j \in DOMAIN Merged :
                        /\ DOMAIN output[i] = DOMAIN Merged[j] \cup {"distance"}
                        /\ \A f \in DOMAIN Merged[j] : output[i][f] = Merged[j][f]
      ]_vars

\* the filter returned one of the two hazards it was given, and both are still
\* in the adapters' lists without a distance
C24_Witness ==
    /\ FilterApplied
    /\ Len(Merged) = 2
    /\ Len(FilterResult) = 1
    /\ \A i \in DOMAIN Merged : "distance" \notin DOMAIN Merged[i]
    /\ "distance" \in DOMAIN FilterResult[1]

\* every request to the three feeds was refused
FeedsUnreachable ==
    log.eq = OutageLog.eq /\ log.wx = OutageLog.wx /\ log.ls = OutageLog.ls

\* every request to the three feeds was answered, with no event
FeedsQuiet ==
    log.eq = QuietLog.eq /\ log.wx = QuietLog.wx /\ log.ls = QuietLog.ls

\* the score of a place without hazards, by the warnings of its weather
ScoreWithoutHazards(warnings) ==
    [ overall     |-> 100 - 6 * Len(warnings),
      earthquake  |-> 100,
      weather     |-> 100 - 15 * Len(warnings),
      landslide   |-> 100,
      explanation |->
        <<Expl("No recent earthquake activity detected", 0, 0)>>
        \o (IF warnings = <<>> THEN <<Expl("No severe weather warnings", 0, 0)>>
            ELSE [i \in DOMAIN warnings |-> Expl(warnings[i], 0, 0)])
        \o <<Expl("No landslide activity detected", 0, 0)>> ]

\* C25: for a given weather snapshot calculateSafetyScore returns the same
\* SafetyScore, scores and explanations, when the three hazard feeds are
\* unreachable as when the three answer with no event: the score of a place
\* without hazards, which the weather alone decides.
C25_UnreachableAsQuiet ==
    (Done("calculateSafetyScore") /\ (FeedsUnreachable \/ FeedsQuiet))
        => outcome = Returned(ScoreWithoutHazards(OwnWeather.value.warnings))

\* the feeds answered with no event, the weather carried warnings; the score
\* is the one returned when the feeds are unreachable
C25_Witness ==
    /\ Done("calculateSafetyScore")
    /\ FeedsQuiet
    /\ Len(OwnWeather.value.warnings) = 2
    /\ outcome.value.overall = 88
    /\ outcome = calculateSafetyScore(
                   getHazardsNearLocation(fetchEarthquakes(Fail), Fulfilled(<<>>),
                                          fetchLandslides(Fail), op.lat, op.lng,
                                          op.radiusKm),
                   OwnWeather)

\* the current-weather request or the forecast request of the operation failed
WeatherRequestFailed ==
    \/ log.current # <<>> /\ log.current[1].status # "ok"
    \/ log.forecast # <<>> /\ log.forecast[1].status # "ok"

\* C26: when the current-weather or the forecast request fails, getWeatherData
\* returns a fallback with warnings ["Weather data unavailable"] and severity
\* low; calculateSafetyScore counts it as one warning: with no hazard in range
\* it returns weather 85, earthquake 100, landslide 100, overall 94, with
\* "Weather data unavailable" among the explanations.
C26_FallbackCountsAsWarning ==
    /\ (Done("getWeatherData") /\ WeatherRequestFailed)
         => /\ outcome.value.warnings = <<"Weather data unavailable">>
            /\ outcome.value.severity = "low"
    /\ (Done("calculateSafetyScore") /\ WeatherRequestFailed /\ hazards = <<>>)
         => /\ outcome.value.weather = 85
            /\ outcome.value.earthquake = 100
            /\ outcome.value.landslide = 100
            /\ outcome.value.overall = 94
            /\ "Weather data unavailable" \in Range(Texts)

\* the forecast was refused after the current weather had been read, while the
\* feeds had delivered a hazard outside the radius
C26_Witness ==
    /\ Done("calculateSafetyScore")
    /\ log.current[1].status = "ok"
    /\ log.forecast # <<>> /\ log.forecast[1].status = "fail"
    /\ Items(log.eq) # {}
    /\ hazards = <<>>
    /\ outcome.value.overall = 94

\* the types calculateSafetyScore reads
ScoredTypes == {"earthquake", "landslide"}

\* a list of hazards without those of the other types
WithoutUnscored(list) ==
    LET scoredType(h) == h.type \in ScoredTypes
    IN  SelectSeq(list, scoredType)

\* C28: hazards of type weather (flood, fire, other) change no sub-score, not
\* the overall score and no explanation: the SafetyScore returned is the one
\* the same hazards give with every such hazard removed.
C28_OtherTypesIgnored ==
    Scored
        => /\ outcome.value = ComputeScore(WithoutUnscored(hazards), OwnWeather.value)
           /\ \A i \in DOMAIN outcome.value.explanation :
                outcome.value.explanation[i].text
                  \in { "Major earthquake", "Moderate earthquake activity",
                        "No recent earthquake activity detected", "Landslide risk",
                        "No landslide activity detected", "No severe weather warnings" }
                      \cup Range(OwnWeather.value.warnings)

\* scored with a weather hazard and an earthquake within 200 km, the earthquake
\* alone lowering a sub-score
C28_Witness ==
    /\ Scored
    /\ \E h \in Range(hazards) : h.type = "weather"
    /\ \E h \in Range(hazards) : h.type = "earthquake" /\ h.distance > 0
    /\ outcome.value.earthquake < 100
    /\ outcome.value.landslide = 100

\* the place of a hazard's adapter in the array given to Promise.all
MergeRank(h) ==
    CASE h.type = "earthquake" -> 1
      [] h.type = "weather"    -> 2
      [] h.type = "landslide"  -> 3

\* C29: whatever the order in which the three adapters complete, the list
\* getHazardsNearLocation returns is the merge in the fixed order earthquakes,
\* weather, landslides, sorted by distance: hazards at equal distance keep the
\* order of the merge (and two weather hazards that of their regions).
C29_MergeOrderFixed ==
    Done("getHazardsNearLocation")
        => \A i, j \in DOMAIN outcome.value :
             (i < j /\ outcome.value[i].distance = outcome.value[j].distance)
               => /\ MergeRank(outcome.value[i]) <= MergeRank(outcome.value[j])
                  /\ outcome.value[i].timestamp <= outcome.value[j].timestamp
                       \/ outcome.value[i].type # outcome.value[j].type

\* an earthquake and a landslide at the same distance, the earthquake first
C29_Witness ==
    /\ Done("getHazardsNearLocation")
    /\ Len(outcome.value) = 2
    /\ outcome.value[1].distance = outcome.value[2].distance
    /\ outcome.value[1].type = "earthquake"
    /\ outcome.value[2].type = "landslide"

\* C30 as stated: once every fetch of the page has completed, the hazards,
\* the weather data, the safety score and the heatmap displayed are those
\* fetched for the active location, in whatever order the responses for the
\* earlier and the later location arrived; and the hazard loading flag is true
\* while a hazard fetch is in flight.
C30_ShowsActiveLocation ==
    /\ (fetches = {} /\ page.activeLocation # "none")
         => /\ page.hazards = page.activeLocation
            /\ page.weatherData = page.activeLocation
            /\ page.safetyScore = page.activeLocation
            /\ page.heatmapData = page.activeLocation
    /\ (\E f \in fetches : f.kind = "hazards") => page.loading

=============================================================================
